---- MODULE Spec2Model ----
(***************************************************************************)
(* A model of two parts of the scylla driver:                              *)
(*   - the speculative execution scheduler `execute` and the error        *)
(*     classification `can_be_ignored`                                     *)
(*     (scylla/src/policies/speculative_execution.rs);                     *)
(*   - the raw row iterator `RawRowIterator`                               *)
(*     (scylla-cql/src/types/deserialize/result.rs).                       *)
(* Spec and FairSpec run the scheduler, IterSpec runs the row iterator.    *)
(***************************************************************************)
EXTENDS Integers, Sequences, FiniteSets, TLC

VARIABLES
    \* ---- speculative execution: the state of one call of execute ----
    policy,             \* the SimpleSpeculativeExecutionPolicy handed to execute
    pc,                 \* "init" (not called yet), "loop" (in the select loop), "done" (returned)
    retries_remaining,  \* the local `retries_remaining`
    async_tasks,        \* the FuturesUnordered: the set of attempt futures in flight
    sleep,              \* the pinned, fused tokio sleep, with the time since it was set
    last_error,         \* the local `last_error`: NONE or the remembered result
    ret,                \* the value execute returned (NONE until it returns)
    \* ---- speculative execution: what an observer of the run records ----
    gen_calls,          \* the generator invocations in order: [speculative, gap]
    orig_mode,          \* how the future returned by generator(false) behaves
    abandoned,          \* the number of attempts in flight that a return dropped
    n_done,             \* the number of task completions the loop has processed
    last_done,          \* the last completion processed: [by, res]
    last_ignored,       \* what can_be_ignored answered for it (FALSE for a None)
    last_ign,           \* the last processed output that was an ignorable error, else NONE
    seen_none,          \* some processed completion was None
    orig_res,           \* the output of the original attempt once processed, else PENDING
    \* ---- can_be_ignored on its own ----
    cls,                \* one call of can_be_ignored: its argument and its answer
    \* ---- row iterator ----
    it                  \* the iterator, its input and the items it has yielded

sched_vars == <<policy, pc, retries_remaining, async_tasks, sleep, last_error, ret,
                gen_calls, orig_mode, abandoned, n_done, last_done, last_ignored,
                last_ign, seen_none, orig_res>>

vars == <<sched_vars, cls, it>>

----------------------------------------------------------------------------
(* Bounds of the model *)

\* The largest max_retry_count a policy is given.
MaxRetries == 2

\* The largest retry_interval a policy is given, in clock ticks.
MaxInterval == 2

\* How many ticks past its deadline the clock runs before the timer is handled.
MaxLate == 1

----------------------------------------------------------------------------
(* Results of attempts: Option<Result<(ResT, Coordinator), RequestError>> *)

\* The variants of RequestError that carry no RequestAttemptError.
PlainRequestErrors == {"EmptyPlan", "RequestTimeout", "ConnectionPoolError"}

\* The variants of RequestAttemptError.
RequestAttemptErrors ==
    {"SerializationError", "CqlRequestSerialization", "BodyExtensionsParseError",
     "CqlResultParseError", "CqlErrorParseError", "UnexpectedResponse",
     "RepreparedIdChanged", "RepreparedIdMissingInBatch", "NonfinishedPagingState",
     "BrokenConnectionError", "UnableToAllocStreamId", "DbError"}

\* A value of Result<_, RequestError>. `kind` is "Ok" or the RequestError variant,
\* `attempt` the wrapped RequestAttemptError of a LastAttemptError ("-" otherwise),
\* `retry_safe` what the wrapped DbError answers to can_speculative_retry(), and
\* `by` the attempt that produced the value (its payload: coordinator or error data).
MkResult(k, a, s, b) == [kind |-> k, attempt |-> a, retry_safe |-> s, by |-> b]

\* Option::None, as an attempt's output and as the empty last_error.
NONE == MkResult("None", "-", FALSE, -1)

\* The original attempt's output before the loop has processed it.
PENDING == MkResult("Pending", "-", FALSE, -1)

\* Every Result value attempt `b` can produce.
ResultsOf(b) ==
    {MkResult("Ok", "-", FALSE, b)}
    \cup {MkResult(k, "-", FALSE, b) : k \in PlainRequestErrors}
    \cup {MkResult("LastAttemptError", a, FALSE, b) : a \in RequestAttemptErrors}
    \cup {MkResult("LastAttemptError", "DbError", TRUE, b)}

\* The outputs the modelled generator's attempts resolve to (besides None): a
\* success, an error that is not ignorable and two that are.
AttemptResults(b) ==
    {MkResult("Ok", "-", FALSE, b),
     MkResult("RequestTimeout", "-", FALSE, b),
     MkResult("ConnectionPoolError", "-", FALSE, b),
     MkResult("LastAttemptError", "DbError", TRUE, b)}

\* DbError::can_speculative_retry, the error's own classification.
can_speculative_retry(db_error) == db_error.retry_safe

\* A mutant of can_be_ignored: a request timeout is treated as ignorable.
can_be_ignored_timeout(result) ==
    CASE result.kind = "Ok" -> FALSE
      [] result.kind = "EmptyPlan" -> FALSE
      [] result.kind = "RequestTimeout" -> TRUE
      [] result.kind = "ConnectionPoolError" -> TRUE
      [] result.kind = "LastAttemptError" ->
            CASE result.attempt \in {"BrokenConnectionError", "UnableToAllocStreamId"} -> TRUE
              [] result.attempt = "DbError" -> can_speculative_retry(result)
              [] OTHER -> FALSE

\* fn can_be_ignored: the two nested matches, arm by arm.
can_be_ignored(result) ==
    CASE result.kind = "Ok" -> FALSE
      [] result.kind = "EmptyPlan" -> FALSE
      [] result.kind = "RequestTimeout" -> FALSE
      [] result.kind = "ConnectionPoolError" -> TRUE
      [] result.kind = "LastAttemptError" ->
            CASE result.attempt \in {"SerializationError", "CqlRequestSerialization",
                                     "BodyExtensionsParseError", "CqlResultParseError",
                                     "CqlErrorParseError", "UnexpectedResponse",
                                     "RepreparedIdChanged", "RepreparedIdMissingInBatch",
                                     "NonfinishedPagingState"} -> FALSE
              [] result.attempt \in {"BrokenConnectionError", "UnableToAllocStreamId"} -> TRUE
              [] result.attempt = "DbError" -> can_speculative_retry(result)

\* const EMPTY_PLAN_ERROR, as the Err(EMPTY_PLAN_ERROR) execute falls back to.
EMPTY_PLAN_ERROR == MkResult("EmptyPlan", "-", FALSE, -1)

----------------------------------------------------------------------------
(* The policy *)

\* The policies execute is called with (retry_interval in clock ticks).
Policies == [max_retry_count : 0..MaxRetries, retry_interval : 0..MaxInterval]

\* SimpleSpeculativeExecutionPolicy::max_retry_count
max_retry_count(p) == p.max_retry_count

\* SimpleSpeculativeExecutionPolicy::retry_interval
retry_interval(p) == p.retry_interval

----------------------------------------------------------------------------
(* The attempt futures and the timer *)

\* How a future returned by the generator behaves: ready at its first poll,
\* ready at some later time, or never ready.
Modes == {"immediate", "eventual", "never"}

\* The future returned by the id-th generator invocation.
Task(id, speculative, mode) == [id |-> id, speculative |-> speculative, mode |-> mode]

\* A mutant of NewSleep: the timer is armed one tick short of the interval.
NewSleepShort(d) == [armed |-> TRUE, left |-> IF d > 0 THEN d - 1 ELSE 0, age |-> 0]

\* tokio::time::sleep(retry_interval).fuse(): armed, `left` ticks before its
\* deadline; `age` counts the ticks since it was created.
NewSleep(d) == [armed |-> TRUE, left |-> d, age |-> 0]

\* The fused sleep after it has completed or was dropped: select! skips it.
SpentSleep == [armed |-> FALSE, left |-> 0, age |-> 0]

\* A mutant of SleepReady: the timer branch is taken before the deadline.
SleepReadyEarly(s) == s.armed

\* The `_ = &mut sleep` branch of select! can be taken.
SleepReady(s) == s.armed /\ s.left = 0

\* A mutant of TimerLaunches: the timer branch launches whatever the countdown says.
TimerLaunchesAlways(retries) == retries >= 0

\* `if retries_remaining > 0` of the timer branch.
TimerLaunches(retries) == retries > 0

\* A mutant of ReturnsNow: only a success ends the race at once.
ReturnsNowOnlyOk(res) == res # NONE /\ res.kind = "Ok"

\* `if let Some(r) = res { if !can_be_ignored(&r) { return r; } ... }`
ReturnsNow(res) == res # NONE /\ ~can_be_ignored(res)

\* A mutant of NextLastError: a None completion forgets the remembered error.
NextLastErrorForgets(res, le) ==
    IF res = NONE THEN NONE ELSE IF can_be_ignored(res) THEN res ELSE le

\* A mutant of NextLastError: the first ignorable error is kept.
NextLastErrorFirst(res, le) ==
    IF res # NONE /\ can_be_ignored(res) /\ le = NONE THEN res ELSE le

\* `else { last_error = Some(r) }`: last_error after an output that did not return.
NextLastError(res, le) == IF res # NONE /\ can_be_ignored(res) THEN res ELSE le

\* A mutant of GivesUp: the in-flight attempts are not looked at.
GivesUpEarly(tasks, retries) == retries = 0

\* A mutant of GivesUp: the retries still unscheduled are not looked at.
GivesUpNoTasks(tasks, retries) == tasks = {}

\* A mutant of GivesUp: the loop never gives up.
GivesUpNever(tasks, retries) == FALSE

\* `if async_tasks.is_empty() && retries_remaining == 0`
GivesUp(tasks, retries) == tasks = {} /\ retries = 0

\* A mutant of GiveUpValue: giving up always answers with the fallback.
GiveUpValueFallback(le) == EMPTY_PLAN_ERROR

\* `last_error.unwrap_or({ Err(EMPTY_PLAN_ERROR) })`
GiveUpValue(le) == IF le # NONE THEN le ELSE EMPTY_PLAN_ERROR

----------------------------------------------------------------------------
(* execute *)

\* The largest value the age of the sleep is counted to.
ClockCap == MaxInterval + MaxLate

\* Before execute is called: nothing but the policy exists yet.
SchedIdle ==
    /\ pc = "init"
    /\ retries_remaining = 0
    /\ async_tasks = {}
    /\ sleep = SpentSleep
    /\ last_error = NONE
    /\ ret = NONE
    /\ gen_calls = <<>>
    /\ orig_mode = "-"
    /\ abandoned = 0
    /\ n_done = 0
    /\ last_done = [by |-> -1, res |-> NONE]
    /\ last_ignored = FALSE
    /\ last_ign = NONE
    /\ seen_none = FALSE
    /\ orig_res = PENDING

\* The state in which execute is called: any policy.
SchedInit == policy \in Policies /\ SchedIdle

\* execute up to the loop: read the policy, push generator(false), arm the timer.
Start ==
    /\ pc = "init"
    /\ \E mode \in Modes :
          /\ async_tasks' = {Task(0, FALSE, mode)}
          /\ orig_mode' = mode
    /\ gen_calls' = <<[speculative |-> FALSE, gap |-> 0]>>
    /\ retries_remaining' = max_retry_count(policy)
    /\ sleep' = NewSleep(retry_interval(policy))
    /\ last_error' = NONE
    /\ pc' = "loop"
    /\ UNCHANGED <<policy, ret, abandoned, n_done, last_done, last_ignored, last_ign,
                   seen_none, orig_res, cls, it>>

\* One tick of the clock while execute waits in select!. A future that is ready
\* at its first poll is polled in the same instant it was pushed, so no time
\* passes while one is in flight.
Tick ==
    /\ pc = "loop"
    /\ sleep.armed
    /\ \A t \in async_tasks : t.mode # "immediate"
    /\ sleep.left > 0 \/ sleep.age < ClockCap
    /\ sleep' = [sleep EXCEPT !.left = IF @ > 0 THEN @ - 1 ELSE 0,
                              !.age = IF @ < ClockCap THEN @ + 1 ELSE @]
    /\ UNCHANGED <<policy, pc, retries_remaining, async_tasks, last_error, ret,
                   gen_calls, orig_mode, abandoned, n_done, last_done, last_ignored,
                   last_ign, seen_none, orig_res, cls, it>>

\* The `_ = &mut sleep` branch of select!.
TimerFires ==
    /\ pc = "loop"
    /\ SleepReady(sleep)
    /\ IF TimerLaunches(retries_remaining)
       THEN /\ \E mode \in Modes :
                  async_tasks' = async_tasks \cup {Task(Len(gen_calls), TRUE, mode)}
            /\ gen_calls' = Append(gen_calls, [speculative |-> TRUE, gap |-> sleep.age])
            /\ retries_remaining' = retries_remaining - 1
            /\ sleep' = NewSleep(retry_interval(policy))
       ELSE /\ sleep' = SpentSleep
            /\ UNCHANGED <<async_tasks, retries_remaining, gen_calls>>
    /\ UNCHANGED <<policy, pc, last_error, ret, orig_mode, abandoned, n_done, last_done,
                   last_ignored, last_ign, seen_none, orig_res, cls, it>>

\* `return`: the caller gets v; the attempts still in flight and the timer are
\* dropped with execute's frame.
Return(v, tasks) ==
    /\ ret' = v
    /\ pc' = "done"
    /\ abandoned' = Cardinality(tasks)
    /\ async_tasks' = {}
    /\ sleep' = SpentSleep

\* The `res = async_tasks.select_next_some()` branch of select!: attempt t
\* completes with output res.
TaskCompletes ==
    /\ pc = "loop"
    /\ \E t \in async_tasks : \E res \in {NONE} \cup AttemptResults(t.id) :
          /\ t.mode # "never"
          /\ IF ReturnsNow(res)
             THEN /\ Return(res, async_tasks \ {t})
                  /\ UNCHANGED last_error
             ELSE /\ last_error' = NextLastError(res, last_error)
                  /\ IF GivesUp(async_tasks \ {t}, retries_remaining)
                     THEN Return(GiveUpValue(last_error'), async_tasks \ {t})
                     ELSE /\ async_tasks' = async_tasks \ {t}
                          /\ UNCHANGED <<ret, pc, abandoned, sleep>>
          /\ n_done' = n_done + 1
          /\ last_done' = [by |-> t.id, res |-> res]
          /\ last_ignored' = (res # NONE /\ can_be_ignored(res))
          /\ last_ign' = IF res # NONE /\ can_be_ignored(res) THEN res ELSE last_ign
          /\ seen_none' = (seen_none \/ res = NONE)
          /\ orig_res' = IF t.id = 0 THEN res ELSE orig_res
    /\ UNCHANGED <<policy, retries_remaining, gen_calls, orig_mode, cls, it>>

\* The scheduler's next-state relation.
Next ==
    \/ Start
    \/ Tick
    \/ TimerFires
    \/ TaskCompletes

\* No call of can_be_ignored on its own is made while the scheduler runs.
ClsIdle == [arg |-> NONE, classified |-> FALSE, answer |-> FALSE]

\* The row iterator is idle while the scheduler runs.
ItIdle == [phase |-> "idle"]

Init == SchedInit /\ cls = ClsIdle /\ it = ItIdle

Spec == Init /\ [][Next]_vars

\* The runtime polls execute whenever its timer or one of its attempts is
\* ready, and the clock keeps running.
FairSpec ==
    /\ Spec
    /\ WF_vars(Start)
    /\ WF_vars(Tick)
    /\ WF_vars(TimerFires)
    /\ WF_vars(TaskCompletes)

----------------------------------------------------------------------------
(* Properties of execute *)

\* The generator(true) invocations made so far.
SpecCalls == Len(SelectSeq(gen_calls, LAMBDA c : c.speculative))

\* Every attempt launched so far has completed and been processed.
AllCompleted == n_done = Len(gen_calls)

\* A step in which the loop processes a task completion.
ProcessesCompletion == n_done' = n_done + 1

\* A step that processes a success or a non-ignorable error returns it.
DefinitiveResultReturned ==
    (ProcessesCompletion /\ last_done'.res # NONE /\ ~can_be_ignored(last_done'.res))
        => (pc' = "done" /\ ret' = last_done'.res)

\* Once execute has returned, no generator invocation and no completion follows.
NothingAfterReturn == pc = "done" => UNCHANGED <<gen_calls, n_done, ret, pc>>

\* C1: whenever the loop processes a completed attempt whose output is a
\* success or a non-ignorable error, execute returns exactly that output in
\* that same step, whatever else is in flight, whatever retries remain and
\* whatever error was remembered; once it has returned, the generator is not
\* invoked again and no further completion is processed.
C1_DefinitiveResultReturnsAtOnce ==
    [][DefinitiveResultReturned /\ NothingAfterReturn]_vars

\* C1 witness: execute has returned a non-ignorable error while another attempt
\* was in flight and an ignorable error had been remembered.
C1_Witness ==
    /\ pc = "done"
    /\ ret = last_done.res
    /\ ret.kind = "RequestTimeout"
    /\ abandoned > 0
    /\ last_error # NONE

\* C2: if every attempt execute launched failed with an ignorable error, the
\* error execute returns is the one of the completion it processed last.
C2_LastIgnorableErrorReturned ==
    (pc = "done" /\ AllCompleted /\ ~seen_none /\ last_ignored)
        => (ret = last_done.res /\ ret.by = last_done.by)

\* C2 witness: three attempts all failed with ignorable errors and the
\* original attempt was the last to complete.
C2_Witness ==
    /\ pc = "done"
    /\ AllCompleted /\ ~seen_none /\ last_ignored
    /\ n_done = 3
    /\ last_done.by = 0

\* The returned value is one an attempt produced and the loop processed last.
RetFromAttempt == ret.by >= 0 /\ ret = last_done.res

\* C3 as stated: the returned value is a success, a non-ignorable error
\* produced by an attempt, or an ignorable error; it is an ignorable error only
\* when every attempt launched completed with an ignorable error, and then it
\* is the last one observed.
C3_Original ==
    pc = "done" =>
        /\ \/ ret.kind = "Ok" /\ RetFromAttempt
           \/ ret.kind # "Ok" /\ ~can_be_ignored(ret) /\ RetFromAttempt
           \/ can_be_ignored(ret)
        /\ can_be_ignored(ret) =>
              (AllCompleted /\ ~seen_none /\ last_ignored /\ ret = last_done.res)

\* C3 amended: the returned value is a success or a non-ignorable error
\* produced by an attempt, or the static EmptyPlan fallback, or an ignorable
\* error; it is an ignorable error only when no retry remains and every attempt
\* launched has completed, each with an ignorable error or with None, and then
\* it is the last ignorable error observed.
C3_ReturnedValue ==
    pc = "done" =>
        /\ \/ ret.kind = "Ok" /\ RetFromAttempt
           \/ ret.kind # "Ok" /\ ~can_be_ignored(ret) /\ RetFromAttempt
           \/ ret = EMPTY_PLAN_ERROR
           \/ can_be_ignored(ret)
        /\ can_be_ignored(ret) =>
              /\ AllCompleted
              /\ retries_remaining = 0
              /\ Len(gen_calls) = max_retry_count(policy) + 1
              /\ last_done.res = NONE \/ last_ignored
              /\ ret = last_ign

\* C3 witness: execute returned an ignorable error that was not the output of
\* the last completion, which was None.
C3_Witness ==
    /\ pc = "done"
    /\ can_be_ignored(ret)
    /\ last_done.res = NONE
    /\ n_done = 3

\* No attempt in flight is one that never completes (such an attempt stays in
\* async_tasks until execute returns).
NoHangingAttempt == \A t \in async_tasks : t.mode # "never"

\* C4 as stated: with a positive retry_interval, execute eventually returns,
\* whatever the generator does.
C4_Original == (retry_interval(policy) > 0) => <>(pc = "done")

\* C4 amended: with a positive retry_interval, execute eventually returns
\* provided every attempt it launches eventually completes.
C4_Terminates ==
    (retry_interval(policy) > 0) => <>(pc = "done" \/ ~NoHangingAttempt)

\* C4 witness: execute returned after three attempts, all of which completed.
C4_Witness ==
    /\ pc = "done"
    /\ retry_interval(policy) > 0
    /\ n_done = 3
    /\ abandoned = 0

\* The original attempt was ready at its first poll and resolved to a success.
OrigSucceedsImmediately == orig_mode = "immediate" /\ orig_res.kind = "Ok"

\* C5 as stated: when the original attempt succeeds immediately, execute
\* returns that success and generator(true) is never invoked, for any policy.
C5_Original ==
    OrigSucceedsImmediately => (pc = "done" /\ ret = orig_res /\ SpecCalls = 0)

\* C5 amended: for any policy with a positive retry_interval, when the original
\* attempt succeeds immediately, execute returns that success and
\* generator(true) is never invoked; it is not invoked either while an
\* immediately ready original attempt has yet to be processed.
C5_ImmediateSuccessNoSpeculation ==
    retry_interval(policy) > 0 =>
        /\ OrigSucceedsImmediately => (pc = "done" /\ ret = orig_res /\ SpecCalls = 0)
        /\ (orig_mode = "immediate" /\ orig_res = PENDING) => SpecCalls = 0

\* C5 witness: a policy that allows retries after a positive interval, and the
\* original attempt succeeded immediately.
C5_Witness ==
    /\ OrigSucceedsImmediately
    /\ pc = "done"
    /\ max_retry_count(policy) = 2
    /\ retry_interval(policy) > 0

\* C6: the number of generator(true) invocations never exceeds max_retry_count
\* (together with the countdown it makes up max_retry_count, and a timer that
\* fired with no retry left has launched nothing); and when the original
\* attempt never completes, all max_retry_count speculative attempts get
\* launched unless execute returns before (on a non-ignorable result).
C6_ExactlyKSpeculativeLaunches ==
    /\ [](pc # "init" =>
            /\ SpecCalls <= max_retry_count(policy)
            /\ SpecCalls + retries_remaining = max_retry_count(policy)
            /\ (pc = "loop" /\ ~sleep.armed) => SpecCalls = max_retry_count(policy))
    /\ (pc = "loop" /\ orig_mode = "never")
          ~> (SpecCalls = max_retry_count(policy) \/ (pc = "done" /\ ~can_be_ignored(ret)))

\* C6 witness: the original attempt never completes, both retries of the policy
\* were launched and the timer then fired once more, launching nothing.
C6_Witness ==
    /\ pc = "loop"
    /\ orig_mode = "never"
    /\ max_retry_count(policy) = 2
    /\ SpecCalls = 2
    /\ ~sleep.armed

\* A step of the loop that invokes the generator takes the timer branch: the
\* timer is ready, retry_interval has passed since its last reset, it is reset
\* and no completion is processed; a step that processes a completion invokes
\* nothing.
LaunchOnlyOnTimer ==
    /\ (pc = "loop" /\ gen_calls' # gen_calls) =>
          /\ SleepReady(sleep)
          /\ sleep.age >= retry_interval(policy)
          /\ sleep'.age = 0
          /\ n_done' = n_done
    /\ ProcessesCompletion => gen_calls' = gen_calls

\* C7: generator(false) is invoked exactly once and first; every later
\* invocation is generator(true), made at least retry_interval after the
\* previous timer reset; an invocation in the loop happens in a step that takes
\* the timer branch (the timer is ready, it is reset, no completion is
\* processed), and a step that processes a completion invokes nothing.
C7_LaunchOrdering ==
    /\ [](pc # "init" =>
            /\ Len(gen_calls) >= 1
            /\ ~gen_calls[1].speculative
            /\ \A i \in 2..Len(gen_calls) :
                  /\ gen_calls[i].speculative
                  /\ gen_calls[i].gap >= retry_interval(policy))
    /\ [][LaunchOnlyOnTimer]_vars

\* C7 witness: two speculative attempts were launched, the first one late, the
\* second one exactly retry_interval after the first.
C7_Witness ==
    /\ Len(gen_calls) = 3
    /\ retry_interval(policy) = 2
    /\ gen_calls[2].gap = 3
    /\ gen_calls[3].gap = 2

----------------------------------------------------------------------------
(* can_be_ignored on every value of the closed outcome set *)

\* Every Result value an attempt can hand to can_be_ignored.
AllResults == UNION {ResultsOf(b) : b \in 0..MaxRetries}

ClsInit ==
    /\ cls \in {[arg |-> r, classified |-> FALSE, answer |-> FALSE] : r \in AllResults}
    /\ policy = [max_retry_count |-> 0, retry_interval |-> 0]
    /\ SchedIdle
    /\ it = ItIdle

\* One call can_be_ignored(&r).
Classify ==
    /\ ~cls.classified
    /\ cls' = [cls EXCEPT !.classified = TRUE, !.answer = can_be_ignored(cls.arg)]
    /\ UNCHANGED <<sched_vars, it>>

ClsNext == Classify

ClassifySpec == ClsInit /\ [][ClsNext]_vars

\* The outcomes the classification is said to answer true for.
SaidIgnorable(r) ==
    \/ r.kind = "ConnectionPoolError"
    \/ r.kind = "LastAttemptError" /\ r.attempt = "BrokenConnectionError"
    \/ r.kind = "LastAttemptError" /\ r.attempt = "UnableToAllocStreamId"
    \/ r.kind = "LastAttemptError" /\ r.attempt = "DbError" /\ r.retry_safe

\* The outcomes the classification is said to answer false for.
SaidNotIgnorable(r) ==
    \/ r.kind = "Ok"
    \/ r.kind = "EmptyPlan"
    \/ r.kind = "RequestTimeout"
    \/ r.kind = "LastAttemptError" /\ r.attempt = "DbError" /\ ~r.retry_safe
    \/ /\ r.kind = "LastAttemptError"
       /\ r.attempt \in {"SerializationError", "CqlRequestSerialization",
                          "BodyExtensionsParseError", "CqlResultParseError",
                          "CqlErrorParseError", "UnexpectedResponse",
                          "RepreparedIdChanged", "RepreparedIdMissingInBatch",
                          "NonfinishedPagingState"}

\* C8: can_be_ignored answers for every outcome; it answers true exactly for
\* ConnectionPoolError, LastAttemptError of BrokenConnectionError or
\* UnableToAllocStreamId, and LastAttemptError of a DbError that is
\* speculative-retry safe; it answers false for every other outcome: Ok,
\* EmptyPlan, RequestTimeout, a DbError that is not retry safe, and the nine
\* serialization, parsing and bookkeeping errors.
C8_Classification ==
    cls.classified =>
        /\ cls.answer = TRUE <=> SaidIgnorable(cls.arg)
        /\ cls.answer = FALSE <=> SaidNotIgnorable(cls.arg)

\* C8 witness: a retry-safe DbError was classified as ignorable.
C8_Witness ==
    /\ cls.classified
    /\ cls.arg.attempt = "DbError"
    /\ cls.arg.retry_safe
    /\ cls.answer = TRUE

----------------------------------------------------------------------------
(* Bounds of the row iterator's inputs *)

\* The largest number of rows serialized into a frame.
MaxRows == 2

\* The largest number of column specs.
MaxCols == 2

\* How many rows more than were serialized the iterator may be told to expect.
MaxExtra == 1

\* How many times next() is called again after it has returned None.
MaxNone == 2

----------------------------------------------------------------------------
(* Serialized cells: a frame is a sequence of bytes *)

\* A cell of a row: null, or a byte string.
NullCell == [null |-> TRUE, bytes |-> <<>>]

SomeCell(b) == [null |-> FALSE, bytes |-> b]

\* The cells the serialized rows are made of.
Cells == {NullCell, SomeCell(<<>>), SomeCell(<<7>>), SomeCell(<<8, 9>>)}

\* The number of bytes of a [bytes] length prefix (an i32).
PrefixLen == 4

\* The big-endian bytes of a non-negative i32.
BytesOf(u) == <<u \div 16777216, (u \div 65536) % 256, (u \div 256) % 256, u % 256>>

\* The big-endian bytes of the i32 n: two's complement, so those of a negative
\* n are the complemented bytes of -n - 1.
EncodeInt(n) ==
    IF n >= 0 THEN BytesOf(n)
    ELSE LET m == BytesOf(-n - 1) IN [i \in 1..4 |-> 255 - m[i]]

\* The i32 read from four big-endian bytes: the first byte carries the sign.
DecodeInt(b) ==
    (IF b[1] >= 128 THEN b[1] - 256 ELSE b[1]) * 16777216
        + b[2] * 65536 + b[3] * 256 + b[4]

\* One cell as the protocol's [bytes]: the length, then the bytes; -1 for null.
SerializeCell(c) ==
    IF c.null THEN EncodeInt(-1) ELSE EncodeInt(Len(c.bytes)) \o c.bytes

RECURSIVE SerializeCells(_)
\* The test helper serialize_cells: the cells one after the other.
SerializeCells(cs) ==
    IF cs = <<>> THEN <<>> ELSE SerializeCell(Head(cs)) \o SerializeCells(Tail(cs))

RECURSIVE SerializeRows(_)
\* Rows serialized back to back.
SerializeRows(rs) ==
    IF rs = <<>> THEN <<>> ELSE SerializeCells(Head(rs)) \o SerializeRows(Tail(rs))

\* FrameSlice::read_cql_bytes on `frame` with the cursor after `pos` bytes:
\* [ok, cell, pos]. A failed read leaves the cursor where it was.
read_cql_bytes(frame, pos) ==
    IF Len(frame) - pos < PrefixLen
    THEN [ok |-> FALSE, cell |-> NullCell, pos |-> pos]
    ELSE LET len == DecodeInt(SubSeq(frame, pos + 1, pos + PrefixLen))
         IN  IF len < 0
             THEN [ok |-> TRUE, cell |-> NullCell, pos |-> pos + PrefixLen]
             ELSE IF Len(frame) - (pos + PrefixLen) < len
                  THEN [ok |-> FALSE, cell |-> NullCell, pos |-> pos]
                  ELSE [ok |-> TRUE,
                        cell |-> SomeCell(SubSeq(frame, pos + PrefixLen + 1,
                                                 pos + PrefixLen + len)),
                        pos |-> pos + PrefixLen + len]

\* The name of the i-th column spec (spec.name()).
ColumnName(i) == <<"b", i>>

\* The column specs of a result with n columns.
Specs(n) == [i \in 1..n |-> ColumnName(i)]

\* ColumnIterator::new(specs, slice): the specs and a copy of the cursor.
ColumnIterator(specs, frame, pos) == [specs |-> specs, frame |-> frame, pos |-> pos]

RECURSIVE ColumnCellsFrom(_, _, _)
\* What successive next() calls on a ColumnIterator yield from column i on:
\* the cells read one after the other, up to the first read that fails.
ColumnCellsFrom(ci, i, pos) ==
    IF i > Len(ci.specs) THEN <<>>
    ELSE LET r == read_cql_bytes(ci.frame, pos)
         IN  IF r.ok THEN <<r.cell>> \o ColumnCellsFrom(ci, i + 1, r.pos)
             ELSE <<>>

\* The cells a ColumnIterator exposes.
ColumnCells(ci) == ColumnCellsFrom(ci, 1, ci.pos)

----------------------------------------------------------------------------
(* RawRowIterator *)

RECURSIVE SkipColumns(_, _, _, _)
\* The loop `for (column_index, spec) in self.specs.iter().enumerate()` of next()
\* from column i (1-based) on, up to column `last`: [ok, pos, column_index].
SkipColumns(frame, pos, i, last) ==
    IF i > last THEN [ok |-> TRUE, pos |-> pos, column_index |-> 0]
    ELSE LET r == read_cql_bytes(frame, pos)
         IN  IF r.ok THEN SkipColumns(frame, r.pos, i + 1, last)
             ELSE [ok |-> FALSE, pos |-> r.pos, column_index |-> i - 1]

\* A mutant of SkipRow: the last column of the row is not skipped.
SkipRowShort(frame, pos, specs) ==
    SkipColumns(frame, pos, 1, IF Len(specs) > 0 THEN Len(specs) - 1 ELSE 0)

\* "Skip the row here, manually": one read_cql_bytes per column spec.
SkipRow(frame, pos, specs) == SkipColumns(frame, pos, 1, Len(specs))

\* The item of a row that was skipped whole: Ok(iter).
OkItem(ci) ==
    [ok |-> TRUE, columns |-> ci, column_index |-> 0, column_name |-> <<>>]

\* The item of a row whose skip failed: Err(RawColumnDeserializationFailed).
ErrItem(specs, column_index) ==
    [ok |-> FALSE, columns |-> ColumnIterator(<<>>, <<>>, 0),
     column_index |-> column_index, column_name |-> specs[column_index + 1]]

\* A mutant of RemainingAfter: an error ends the sequence.
RemainingAfterStop(remaining, ok) == IF ok THEN remaining - 1 ELSE 0

\* `self.remaining = self.remaining.checked_sub(1)?`, whatever the row turns
\* out to be.
RemainingAfter(remaining, ok) == remaining - 1

\* RawRowIterator::next with rows remaining: the iterator after the call and
\* the item.
RawNext(specs, frame, remaining, pos) ==
    LET iter == ColumnIterator(specs, frame, pos)
        skip == SkipRow(frame, pos, specs)
    IN  [remaining |-> RemainingAfter(remaining, skip.ok),
         pos |-> skip.pos,
         item |-> IF skip.ok THEN OkItem(iter) ELSE ErrItem(specs, skip.column_index)]

\* An input of the iterator: rows of cells, the number of bytes cut off the
\* end of their serialization, and the declared row count.
ItInput(nc, rs, c, n) == [ncols |-> nc, rows |-> rs, cut |-> c, declared |-> n]

\* The bytes of an input.
FrameOf(in) ==
    LET whole == SerializeRows(in.rows) IN SubSeq(whole, 1, Len(whole) - in.cut)

\* The iterator RawRowIterator::new(remaining, specs, slice) returns.
NewRawRowIterator(in) ==
    [phase |-> "raw",
     in |-> in,
     specs |-> Specs(in.ncols),
     frame |-> FrameOf(in),
     remaining |-> in.declared,
     pos |-> 0,
     items |-> <<>>,
     nones |-> 0]

\* RawRowIterator::new over every input within the bounds: rows serialized back
\* to back, possibly with bytes cut off the end, and a declared row count that
\* may be smaller or larger than the number of rows serialized.
ItInit ==
    /\ \E nc \in 0..MaxCols, nr \in 0..MaxRows :
          \E rs \in [1..nr -> [1..nc -> Cells]] :
            \E c \in 0..Len(SerializeRows(rs)), n \in 0..(nr + MaxExtra) :
              it = NewRawRowIterator(ItInput(nc, rs, c, n))
    /\ policy = [max_retry_count |-> 0, retry_interval |-> 0]
    /\ SchedIdle
    /\ cls = ClsIdle

\* One call of RawRowIterator::next that yields an item.
RawNextSome ==
    /\ it.phase = "raw"
    /\ it.remaining > 0
    /\ LET n == RawNext(it.specs, it.frame, it.remaining, it.pos)
       IN  it' = [it EXCEPT !.remaining = n.remaining,
                            !.pos = n.pos,
                            !.items = Append(@, n.item)]
    /\ UNCHANGED <<sched_vars, cls>>

\* One call of RawRowIterator::next that returns None: checked_sub fails.
RawNextNone ==
    /\ it.phase = "raw"
    /\ it.remaining = 0
    /\ it.nones < MaxNone
    /\ it' = [it EXCEPT !.nones = @ + 1]
    /\ UNCHANGED <<sched_vars, cls>>

ItNext ==
    \/ RawNextSome
    \/ RawNextNone

IterSpec == ItInit /\ [][ItNext]_vars

----------------------------------------------------------------------------
(* Properties of RawRowIterator *)

\* The offset in the frame at which the i-th serialized row starts.
RowStart(in, i) == Len(SerializeRows(SubSeq(in.rows, 1, i - 1)))

\* The number of serialized rows that are whole in the frame.
WholeRows(in) ==
    Cardinality({i \in 1..Len(in.rows) : RowStart(in, i + 1) <= Len(FrameOf(in))})

\* The slice holds (at least) the declared number of well-formed rows.
HoldsDeclaredRows(in) == in.declared <= WholeRows(in)

\* The slice holds fewer row bytes than the declared row count implies.
TooFewRowBytes(in) == in.ncols > 0 /\ WholeRows(in) < in.declared

\* The i-th item is Ok, and its ColumnIterator stands at the first cell of the
\* i-th serialized row and exposes exactly the cells of that row.
IsRow(i) ==
    /\ it.items[i].ok
    /\ it.items[i].columns.pos = RowStart(it.in, i)
    /\ ColumnCells(it.items[i].columns) = it.in.rows[i]

\* C9: over a slice that holds N well-formed rows, next() yields exactly N Ok
\* items and then None, in serialization order: the i-th item's ColumnIterator
\* stands at the first cell of the i-th serialized row and exposes exactly that
\* row's cells.
C9_WellFormedRowsInOrder ==
    (it.phase = "raw" /\ HoldsDeclaredRows(it.in)) =>
        /\ Len(it.items) + it.remaining = it.in.declared
        /\ \A i \in 1..Len(it.items) : IsRow(i)
        /\ it.nones > 0 => Len(it.items) = it.in.declared

\* C9 witness: two different rows of two cells were yielded, then None.
C9_Witness ==
    /\ it.phase = "raw"
    /\ HoldsDeclaredRows(it.in)
    /\ it.in.ncols = 2
    /\ it.in.declared = 2
    /\ Len(it.items) = 2
    /\ it.in.rows[1] # it.in.rows[2]
    /\ it.nones > 0

\* C10 as stated: over a slice with too few row bytes, next() yields the whole
\* rows as Ok items, then exactly one error item, which ends the sequence; no
\* more than N items are yielded.
C10_Original ==
    (it.phase = "raw" /\ TooFewRowBytes(it.in)) =>
        /\ \A i \in 1..Len(it.items) : it.items[i].ok <=> i <= WholeRows(it.in)
        /\ Len(it.items) <= WholeRows(it.in) + 1
        /\ Len(it.items) <= it.in.declared

\* C10 amended: over a slice with too few row bytes, next() yields the whole
\* rows as Ok items and then an error item for every remaining declared row,
\* exactly N items in all before None; the first error item ends the sequence
\* only when a single declared row is missing.
C10_ErrorForEveryMissingRow ==
    (it.phase = "raw" /\ TooFewRowBytes(it.in)) =>
        /\ \A i \in 1..Len(it.items) :
              IF i <= WholeRows(it.in) THEN IsRow(i) ELSE ~it.items[i].ok
        /\ Len(it.items) + it.remaining = it.in.declared
        /\ it.nones > 0 => Len(it.items) = it.in.declared

\* C10 witness: three rows declared over a slice cut inside its second row:
\* one Ok item and two error items were yielded, then None.
C10_Witness ==
    /\ it.phase = "raw"
    /\ TooFewRowBytes(it.in)
    /\ it.in.cut > 0
    /\ it.in.declared = 3
    /\ WholeRows(it.in) = 1
    /\ Len(it.items) = 3
    /\ it.items[1].ok /\ ~it.items[2].ok /\ ~it.items[3].ok
    /\ it.nones > 0

----------------------------------------------------------------------------
(* The sequence-length contract of RawRowIterator *)

\* RawRowIterator::rows_remaining
rows_remaining(i) == i.remaining

\* A mutant of size_hint: the lower bound is the default one of Iterator.
size_hint_default(i) == <<0, i.remaining>>

\* RawRowIterator::size_hint: (self.remaining, Some(self.remaining)).
size_hint(i) == <<i.remaining, i.remaining>>

RECURSIVE ItemsFrom(_, _, _, _)
\* The items successive next() calls produce from a state of the iterator on,
\* up to the first None.
ItemsFrom(specs, frame, remaining, pos) ==
    IF remaining = 0 THEN <<>>
    ELSE LET n == RawNext(specs, frame, remaining, pos)
         IN  <<n.item>> \o ItemsFrom(specs, frame, n.remaining, n.pos)

\* The items the iterator `it` will still produce.
ItemsToCome == ItemsFrom(it.specs, it.frame, it.remaining, it.pos)

\* rows_remaining() and both bounds of size_hint() are the number of items
\* still to come.
SizeIsExact ==
    it.phase = "raw" =>
        /\ rows_remaining(it) = Len(ItemsToCome)
        /\ size_hint(it)[1] = Len(ItemsToCome)
        /\ size_hint(it)[2] = Len(ItemsToCome)

\* A call of next() that produces an item takes exactly one off remaining; a
\* call with remaining at zero produces nothing and leaves the cursor alone.
OnePerItem ==
    it.phase = "raw" =>
        /\ Len(it'.items) = Len(it.items) + 1 => it'.remaining = it.remaining - 1
        /\ it'.remaining # it.remaining => Len(it'.items) = Len(it.items) + 1
        /\ it.remaining = 0 =>
              (it'.items = it.items /\ it'.pos = it.pos /\ it'.remaining = 0)

\* C11: in every reachable state of a RawRowIterator, rows_remaining() and both
\* bounds of size_hint() equal the number of items next() will still produce
\* before None, also after an error item; remaining decreases by exactly one
\* per produced item, Ok or Err, and once it is zero every later next() returns
\* None without advancing the cursor, even if bytes remain in the slice.
C11_SizeIsExact == []SizeIsExact /\ [][OnePerItem]_vars

\* C11 witness: three items were produced, the first Ok and a later one an
\* error, and next() then returned None twice with bytes left in the slice.
C11_Witness ==
    /\ it.phase = "raw"
    /\ Len(it.items) = 3
    /\ \E i \in 1..3 : ~it.items[i].ok
    /\ it.items[1].ok
    /\ it.remaining = 0
    /\ it.nones = MaxNone
    /\ it.pos < Len(it.frame)

----------------------------------------------------------------------------
(* TypedRowIterator<R> *)

\* The type of every column spec of the modelled results: ColumnType::Blob.
ColumnTypeOf(spec) == "Blob"

\* The field types a row type R is made of: &[u8] or Vec<u8>, Option<&[u8]>, i32.
FieldTypes == {"blob", "opt_blob", "int"}

\* The row types R: the tuples of up to MaxCols fields.
RowTypes == UNION {[1..k -> FieldTypes] : k \in 0..MaxCols}

\* The column type a field type accepts.
Accepts(field, column_type) ==
    CASE field = "blob" -> column_type = "Blob"
      [] field = "opt_blob" -> column_type = "Blob"
      [] field = "int" -> column_type = "Int"

\* R::type_check(specs) of a tuple R: as many fields as column specs, and each
\* field accepts its column's type.
type_check(R, specs) ==
    /\ Len(R) = Len(specs)
    /\ \A i \in 1..Len(R) : Accepts(R[i], ColumnTypeOf(specs[i]))

\* Deserializing one cell as a field: a null cell is a value only of an Option.
FieldAccepts(field, cell) ==
    CASE field = "blob" -> ~cell.null
      [] field = "opt_blob" -> TRUE
      [] field = "int" -> ~cell.null /\ Len(cell.bytes) = 4

\* A typed item: Ok(row) holding the row's field values, or an Err. `raw` tells
\* whether the error is the raw iterator's own, and for such an error
\* column_index and column_name are the ones it carries.
TypedOk(values) ==
    [ok |-> TRUE, values |-> values, raw |-> FALSE, column_index |-> 0, column_name |-> <<>>]

TypedErr(is_raw, column_index, column_name) ==
    [ok |-> FALSE, values |-> <<>>, raw |-> is_raw,
     column_index |-> column_index, column_name |-> column_name]

\* R::deserialize(columns) of a tuple R: the columns are read one after the
\* other and each cell is deserialized as its field; the first one that is
\* rejected fails the row.
deserialize(R, columns) ==
    LET cells == ColumnCells(columns)
        bad == {i \in 1..Len(R) : i > Len(cells) \/ ~FieldAccepts(R[i], cells[i])}
    IN  IF bad = {} THEN TypedOk(cells)
        ELSE LET i == CHOOSE j \in bad : \A k \in bad : j <= k
             IN  TypedErr(FALSE, i - 1, columns.specs[i])

\* A mutant of TypedItem: a raw error is replaced by a deserialization error.
TypedItemMasksRaw(R, raw_item) ==
    IF raw_item.ok THEN deserialize(R, raw_item.columns)
    ELSE TypedErr(FALSE, raw_item.column_index, raw_item.column_name)

\* `raw.and_then(|raw| R::deserialize(raw))`
TypedItem(R, raw_item) ==
    IF raw_item.ok THEN deserialize(R, raw_item.columns)
    ELSE TypedErr(TRUE, raw_item.column_index, raw_item.column_name)

\* The number of calls of R::deserialize the closure of and_then makes for one
\* raw item.
DeserCalls(raw_item) == IF raw_item.ok THEN 1 ELSE 0

\* The raw iterator TypedRowIterator::new is about to be called with, and R.
TypedCall(in, R) == [phase |-> "call", raw |-> NewRawRowIterator(in), R |-> R]

\* A call of TypedRowIterator::<R>::new over every input within the bounds.
TypedInit ==
    /\ \E nc \in 0..MaxCols, nr \in 0..MaxRows :
          \E rs \in [1..nr -> [1..nc -> Cells]] :
            \E c \in 0..Len(SerializeRows(rs)), n \in 0..(nr + MaxExtra) :
              \E R \in RowTypes :
                it = TypedCall(ItInput(nc, rs, c, n), R)
    /\ policy = [max_retry_count |-> 0, retry_interval |-> 0]
    /\ SchedIdle
    /\ cls = ClsIdle

\* A mutant of ChecksPerNext: the type check is run again for every row.
ChecksPerNextOne(inner) == 1

\* The number of calls of R::type_check that TypedRowIterator::next makes on
\* an iterator wrapping `inner`.
ChecksPerNext(inner) == 0

\* TypedRowIterator::new: `R::type_check(raw.specs())?` and then Ok(Self).
TypedNew ==
    /\ it.phase = "call"
    /\ IF type_check(it.R, it.raw.specs)
       THEN it' = [phase |-> "typed", R |-> it.R, raw |-> it.raw, inner |-> it.raw,
                   type_checks |-> 1, deser_calls |-> 0, items |-> <<>>, nones |-> 0]
       ELSE it' = [phase |-> "type_error", R |-> it.R, raw |-> it.raw, inner |-> it.raw,
                   type_checks |-> 1, deser_calls |-> 0, items |-> <<>>, nones |-> 0]
    /\ UNCHANGED <<sched_vars, cls>>

\* One call of TypedRowIterator::next for which inner.next() yields an item.
TypedNextSome ==
    /\ it.phase = "typed"
    /\ it.inner.remaining > 0
    /\ LET n == RawNext(it.inner.specs, it.inner.frame, it.inner.remaining, it.inner.pos)
       IN  it' = [it EXCEPT !.inner.remaining = n.remaining,
                            !.inner.pos = n.pos,
                            !.inner.items = Append(@, n.item),
                            !.items = Append(@, TypedItem(it.R, n.item)),
                            !.deser_calls = @ + DeserCalls(n.item),
                            !.type_checks = @ + ChecksPerNext(it.inner)]
    /\ UNCHANGED <<sched_vars, cls>>

\* One call of TypedRowIterator::next for which inner.next() returns None.
TypedNextNone ==
    /\ it.phase = "typed"
    /\ it.inner.remaining = 0
    /\ it.nones < MaxNone
    /\ it' = [it EXCEPT !.nones = @ + 1, !.type_checks = @ + ChecksPerNext(it.inner)]
    /\ UNCHANGED <<sched_vars, cls>>

TypedNext ==
    \/ TypedNew
    \/ TypedNextSome
    \/ TypedNextNone

TypedSpec == TypedInit /\ [][TypedNext]_vars

----------------------------------------------------------------------------
(* Properties of TypedRowIterator *)

\* The raw iterator as RawRowIterator::new made it: no row read.
Untouched(raw) == raw = NewRawRowIterator(raw.in)

\* C12: TypedRowIterator::<R>::new runs R::type_check against the raw
\* iterator's column specs exactly once and before any row is consumed. If the
\* check fails, construction fails and no row is read: the raw iterator's
\* cursor and remaining are untouched and no item is ever produced. If it
\* passes, the returned iterator has the rows_remaining of the raw one. The
\* check is never run again per row, and running it again on the same specs
\* gives the verdict construction got.
C12_TypeCheckedOnceUpFront ==
    /\ it.phase = "call" => Untouched(it.raw)
    /\ it.phase = "type_error" =>
          /\ ~type_check(it.R, it.inner.specs)
          /\ it.type_checks = 1
          /\ Untouched(it.inner)
          /\ it.items = <<>> /\ it.nones = 0 /\ it.deser_calls = 0
    /\ it.phase = "typed" =>
          /\ type_check(it.R, it.inner.specs)
          /\ it.type_checks = 1
          /\ (it.items = <<>> /\ it.nones = 0) =>
                (Untouched(it.inner) /\ rows_remaining(it.inner) = it.raw.remaining)
          /\ rows_remaining(it.inner) + Len(it.items) = it.raw.remaining

\* C12 witness: a row type of two fields, one of them an i32, was refused over
\* two Blob columns with two whole rows in the slice.
C12_Witness ==
    /\ it.phase = "type_error"
    /\ Len(it.R) = 2
    /\ it.R[1] = "int"
    /\ it.inner.in.ncols = 2
    /\ it.inner.in.declared = 2
    /\ it.inner.in.cut = 0
    /\ Len(it.inner.in.rows) = 2

\* The items a RawRowIterator over the same specs, bytes and row count yields.
RawItemsOfSameBytes == ItemsFrom(it.raw.specs, it.raw.frame, it.raw.remaining, it.raw.pos)

\* The i-th typed item is the i-th raw item mapped through R::deserialize: a
\* raw Err unchanged, a raw Ok(columns) as R::deserialize(columns).
MapsRawItem(i) ==
    LET raw_item == RawItemsOfSameBytes[i]
    IN  IF raw_item.ok
        THEN it.items[i] = deserialize(it.R, raw_item.columns)
        ELSE /\ ~it.items[i].ok
             /\ it.items[i].raw
             /\ it.items[i].column_index = raw_item.column_index
             /\ it.items[i].column_name = raw_item.column_name

\* The number of Ok items among the first n raw items.
OkRawItems(n) == Cardinality({i \in 1..n : RawItemsOfSameBytes[i].ok})

\* C13: for every i, the i-th item of TypedRowIterator<R> is the i-th item of
\* a RawRowIterator over the same bytes mapped through R::deserialize: a raw
\* Err is passed through unchanged without a call of R::deserialize, a raw
\* Ok(columns) becomes R::deserialize(columns), whose values are the cells of
\* the i-th serialized row. The typed iterator yields as many items as the raw
\* one and has its size_hint, and a row that fails to deserialize changes no
\* other item.
C13_TypedIsRawMapped ==
    it.phase = "typed" =>
        /\ Len(it.items) <= Len(RawItemsOfSameBytes)
        /\ \A i \in 1..Len(it.items) : MapsRawItem(i)
        /\ \A i \in 1..Len(it.items) :
              (it.items[i].ok /\ i <= Len(it.raw.in.rows)) =>
                  it.items[i].values = it.raw.in.rows[i]
        /\ it.deser_calls = OkRawItems(Len(it.items))
        /\ size_hint(it.inner)[1] = Len(RawItemsOfSameBytes) - Len(it.items)
        /\ size_hint(it.inner)[2] = Len(RawItemsOfSameBytes) - Len(it.items)
        /\ it.nones > 0 => Len(it.items) = Len(RawItemsOfSameBytes)

\* C13 witness: the first row failed to deserialize (a null for a field that
\* is no Option), the second row was deserialized, the third item is the raw
\* iterator's own error, and None followed.
C13_Witness ==
    /\ it.phase = "typed"
    /\ Len(it.items) = 3
    /\ ~it.items[1].ok /\ ~it.items[1].raw
    /\ it.items[2].ok /\ Len(it.items[2].values) = 2
    /\ ~it.items[3].ok /\ it.items[3].raw
    /\ it.nones > 0

----------------------------------------------------------------------------
(* The loop of execute: its measure, giving up, None completions *)

\* The number of in-flight attempt tasks plus retries_remaining.
Measure == Cardinality(async_tasks) + retries_remaining

\* An iteration of the loop either returns or strictly reduces the measure.
IterationReducesMeasure ==
    (TimerFires \/ TaskCompletes) => (pc' = "done" \/ Measure' < Measure)

\* C14 as stated: every iteration of the execute loop, a timer firing as well
\* as a task completion, either returns or strictly reduces the number of
\* in-flight attempt tasks plus retries_remaining.
C14_Original == [][IterationReducesMeasure]_vars

\* A task completion either returns or takes one off the measure.
CompletionReducesMeasure ==
    TaskCompletes => (pc' = "done" \/ Measure' = Measure - 1)

\* A timer firing never returns and leaves the measure as it is: it either
\* moves one retry into a new in-flight attempt and re-arms the timer, or, with
\* no retry left, only spends the timer.
TimerKeepsMeasure ==
    TimerFires =>
        /\ pc' = "loop"
        /\ Measure' = Measure
        /\ \/ /\ retries_remaining > 0
              /\ retries_remaining' = retries_remaining - 1
              /\ Cardinality(async_tasks') = Cardinality(async_tasks) + 1
              /\ sleep'.armed
           \/ /\ retries_remaining = 0
              /\ UNCHANGED <<retries_remaining, async_tasks>>
              /\ sleep.armed /\ ~sleep'.armed

\* C14 amended: an iteration that processes a task completion either returns
\* or strictly reduces the number of in-flight attempt tasks plus
\* retries_remaining, by one; an iteration in which the timer fires never
\* returns and leaves that measure unchanged: it strictly reduces
\* retries_remaining while a retry is left and otherwise spends the timer.
C14_MeasurePerIteration == [][CompletionReducesMeasure /\ TimerKeepsMeasure]_vars

\* C14 witness: the timer has fired twice and launched twice, nothing has
\* completed, and the measure is still what it was when the loop was entered.
C14_Witness ==
    /\ pc = "loop"
    /\ SpecCalls = 2
    /\ n_done = 0
    /\ retries_remaining = 0
    /\ Measure = max_retry_count(policy) + 1

\* execute has given up: it returned an ignorable error or the static fallback.
GaveUp == pc = "done" /\ (can_be_ignored(ret) \/ ret = EMPTY_PLAN_ERROR)

\* Giving up happens only with nothing in flight and no retry left: all
\* max_retry_count speculative attempts were launched and every attempt
\* launched has completed.
GaveUpOnlyAtTheEnd ==
    GaveUp =>
        /\ abandoned = 0
        /\ retries_remaining = 0
        /\ SpecCalls = max_retry_count(policy)
        /\ AllCompleted

\* A step that processes an ignorable failure while another attempt is in
\* flight or a retry is unscheduled only remembers the failure.
IgnorableFailureOnlyRemembered ==
    (/\ pc = "loop"
     /\ ProcessesCompletion
     /\ last_ignored'
     /\ (Cardinality(async_tasks) > 1 \/ retries_remaining > 0)) =>
        /\ pc' = "loop"
        /\ ret' = ret
        /\ last_error' = last_done'.res
        /\ Cardinality(async_tasks') = Cardinality(async_tasks) - 1
        /\ UNCHANGED <<retries_remaining, sleep, gen_calls>>

\* C15: execute gives up with an ignorable error or the static fallback only
\* in a state where no attempt is in flight and retries_remaining is 0, that
\* is after all max_retry_count speculative attempts have been launched and
\* every launched attempt has completed; while an attempt is in flight or a
\* retry is unscheduled, an ignorable failure only updates the remembered last
\* error and the loop keeps waiting.
C15_GivesUpOnlyAtTheEnd == []GaveUpOnlyAtTheEnd /\ [][IgnorableFailureOnlyRemembered]_vars

\* C15 witness: two attempts have failed with ignorable errors and nothing is
\* in flight, but a retry is unscheduled: the loop waits for the timer with the
\* last failure remembered.
C15_Witness ==
    /\ pc = "loop"
    /\ n_done = 2
    /\ last_ignored
    /\ last_error = last_done.res
    /\ async_tasks = {}
    /\ retries_remaining > 0

\* A step that processes a None completion: the remembered error stays; while
\* another attempt is in flight or a retry remains nothing is returned and the
\* loop goes on with the rest; and a value returned in that step is the
\* remembered error or the fallback, nothing the completion brought.
NoneCompletionIgnored ==
    (pc = "loop" /\ ProcessesCompletion /\ last_done'.res = NONE) =>
        /\ last_error' = last_error
        /\ (Cardinality(async_tasks) > 1 \/ retries_remaining > 0) =>
              /\ pc' = "loop"
              /\ ret' = ret
              /\ Cardinality(async_tasks') = Cardinality(async_tasks) - 1
              /\ UNCHANGED <<retries_remaining, sleep, gen_calls>>
        /\ pc' = "done" => ret' = GiveUpValue(last_error)

\* C16: when an attempt completes with None, the completion is ignored: the
\* remembered last error is left unchanged, nothing is returned because of it
\* and execute keeps waiting on the rest as long as another attempt is in
\* flight or a retry remains.
C16_NoneCompletionIgnored == [][NoneCompletionIgnored]_vars

\* C16 witness: an attempt completed with None after an ignorable error had
\* been remembered; the error is still remembered and the loop waits for the
\* attempt still in flight.
C16_Witness ==
    /\ pc = "loop"
    /\ last_done.res = NONE
    /\ n_done = 2
    /\ last_error # NONE
    /\ async_tasks # {}

\* execute returned the static fallback, an error no attempt produced.
ReturnedFallback == pc = "done" /\ ret = EMPTY_PLAN_ERROR

\* C17: execute returns the static EmptyPlan fallback only when the last
\* in-flight attempt has completed, no retries remain and no ignorable error
\* was ever recorded; this happens only in runs where the original attempt
\* itself reported None, and never in a run where an attempt completed with an
\* ignorable error.
C17_FallbackOnlyWithoutAnyError ==
    /\ ReturnedFallback =>
          /\ abandoned = 0 /\ AllCompleted
          /\ retries_remaining = 0
          /\ last_error = NONE
          /\ orig_res = NONE
          /\ last_done.res = NONE
    /\ last_ign # NONE => ~ReturnedFallback

\* C17 witness: the original attempt and two speculative ones all completed
\* with None, the original not the first of them, and the fallback was returned.
C17_Witness ==
    /\ ReturnedFallback
    /\ max_retry_count(policy) = 2
    /\ n_done = 3
    /\ last_done.by = 0

----------------------------------------------------------------------------
(* Error items of RawRowIterator *)

\* The index of the first Err item yielded so far (0 if there is none).
FirstErr ==
    LET errs == {i \in 1..Len(it.items) : ~it.items[i].ok}
    IN  IF errs = {} THEN 0 ELSE CHOOSE i \in errs : \A j \in errs : i <= j

\* Every item after the first Err is an Err too.
OnlyErrsAfterErr ==
    \A i \in 1..Len(it.items) : (FirstErr > 0 /\ i > FirstErr) => ~it.items[i].ok

\* Every Err after the first names the failing column the first one names.
SameErrAfterErr ==
    \A i \in 1..Len(it.items) :
        (FirstErr > 0 /\ i > FirstErr /\ ~it.items[i].ok) =>
            /\ it.items[i].column_index = it.items[FirstErr].column_index
            /\ it.items[i].column_name = it.items[FirstErr].column_name

\* C18: once next() has yielded an Err item, every later item it yields is an
\* Err too, never an Ok row, and each of those later Errs contains the first
\* encountered error: the same failing column index and column name.
C18_SameFirstError ==
    it.phase = "raw" => (OnlyErrsAfterErr /\ SameErrAfterErr)

----------------------------------------------------------------------------
(* The caller reads the columns of the rows it was handed *)

\* ColumnIterator::next with a column left: the spec is taken off and the
\* column's [bytes] is read on the ColumnIterator's own copy of the cursor.
ColumnIteratorNext(ci) ==
    [ci EXCEPT !.specs = Tail(@), !.pos = read_cql_bytes(ci.frame, ci.pos).pos]

\* A mutant of CursorAfterColumn: the ColumnIterator reads through the row
\* iterator's own cursor instead of a copy.
CursorShared(own_pos, column_pos) == column_pos

\* The row iterator's cursor after a ColumnIterator it handed out has read a
\* column: `ColumnIterator::new(self.specs, self.slice)` was given a copy.
CursorAfterColumn(own_pos, column_pos) == own_pos

\* The caller calls next() on the ColumnIterator of some Ok item it holds.
ColumnNext ==
    /\ it.phase = "raw"
    /\ \E i \in 1..Len(it.items) :
          /\ it.items[i].ok
          /\ it.items[i].columns.specs # <<>>
          /\ LET ci == ColumnIteratorNext(it.items[i].columns)
             IN  it' = [it EXCEPT !.items[i].columns = ci,
                                  !.pos = CursorAfterColumn(@, ci.pos)]
    /\ UNCHANGED <<sched_vars, cls>>

ColNext ==
    \/ RawNextSome
    \/ RawNextNone
    \/ ColumnNext

\* The row iterator together with a caller that reads columns as it likes.
ColSpec == ItInit /\ [][ColNext]_vars

RECURSIVE StateAfter(_, _, _, _, _)
\* The remaining count and cursor of a row iterator after k calls of next()
\* that yield an item, none of whose ColumnIterators is touched.
StateAfter(specs, frame, remaining, pos, k) ==
    IF k = 0 THEN [remaining |-> remaining, pos |-> pos]
    ELSE LET n == RawNext(specs, frame, remaining, pos)
         IN  StateAfter(specs, frame, n.remaining, n.pos, k - 1)

\* The items of a row iterator over the same input none of whose
\* ColumnIterators is touched.
UntouchedItems == ItemsFrom(it.specs, it.frame, it.in.declared, 0)

\* Item i is the item the untouched iterator yields: Ok or the same error, and
\* for an Ok item of a whole row the columns not read yet are the row's last.
SameItem(i) ==
    LET a == it.items[i]
        b == UntouchedItems[i]
    IN  /\ a.ok = b.ok
        /\ a.column_index = b.column_index
        /\ a.column_name = b.column_name
        /\ (a.ok /\ i <= WholeRows(it.in)) =>
              ColumnCells(a.columns) =
                  SubSeq(it.in.rows[i], it.in.ncols - Len(a.columns.specs) + 1, it.in.ncols)

\* Whatever the caller has read of the ColumnIterators, the row iterator is
\* where the untouched one is and has yielded what it yields.
ProgressIsIndependent ==
    it.phase = "raw" =>
        /\ Len(it.items) <= Len(UntouchedItems)
        /\ \A i \in 1..Len(it.items) : SameItem(i)
        /\ [remaining |-> it.remaining, pos |-> it.pos]
              = StateAfter(it.specs, it.frame, it.in.declared, 0, Len(it.items))
        /\ (Len(it.items) > 0 /\ Len(it.items) <= WholeRows(it.in)) =>
              it.pos = RowStart(it.in, Len(it.items) + 1)

\* Reading a column moves only the ColumnIterator.
ColumnReadMovesNoRow ==
    (it.phase = "raw" /\ Len(it'.items) = Len(it.items) /\ it'.items # it.items) =>
        (it'.pos = it.pos /\ it'.remaining = it.remaining)

\* C19: the row iterator's progress is independent of the ColumnIterators it
\* hands out: after next() returns Ok its own cursor is at the start of the
\* next row, and the items of all later next() calls are the same whether the
\* caller reads none, some or all columns of a returned ColumnIterator, which
\* works on a copy of the cursor and never moves the row iterator's.
C19_ProgressIsIndependent == []ProgressIsIndependent /\ [][ColumnReadMovesNoRow]_vars

\* C19 witness: of two rows of two columns the caller read one column of the
\* first and none of the second, and the row iterator then returned None.
C19_Witness ==
    /\ it.phase = "raw"
    /\ it.in.ncols = 2
    /\ Len(it.items) = 2
    /\ it.items[1].ok /\ Len(it.items[1].columns.specs) = 1
    /\ it.items[2].ok /\ Len(it.items[2].columns.specs) = 2
    /\ it.in.rows[1] # it.in.rows[2]
    /\ it.nones > 0

----------------------------------------------------------------------------
(* The wait points of execute *)

\* An event source select! waits on is live: the timer is armed or an attempt
\* is in flight.
SomethingToWaitFor == sleep.armed \/ async_tasks # {}

\* C20: at every wait point of the execute loop at least one awaited event
\* source is live: the timer is armed or at least one attempt is in flight. The
\* state with the timer spent and no attempt in flight is unreachable while
\* execute has not returned, for every max_retry_count and every interleaving
\* of timer firings and attempt completions, None completions included.
C20_AlwaysSomethingToWaitFor == pc = "loop" => SomethingToWaitFor

\* C20 witness: the timer is spent, a None completion has been processed and
\* the loop waits on the one attempt still in flight.
C20_Witness ==
    /\ pc = "loop"
    /\ ~sleep.armed
    /\ Cardinality(async_tasks) = 1
    /\ seen_none
    /\ n_done = 2

====
